---- MODULE Spec2Model ----
(***************************************************************************)
(* Model of the VRL Block expression                                       *)
(* (lib/vrl/compiler/src/expression/block.rs): single-record resolution,   *)
(* batch resolution over a selection vector, and type inference.           *)
(*                                                                         *)
(* The child expressions of a block (the Expr variants) are not part of    *)
(* the sources at hand; four stub expressions stand for them and follow    *)
(* the Expression contract of the specification (section 4.1).             *)
(***************************************************************************)
EXTENDS Integers, Sequences, FiniteSets, TLC

\* Bounds of the model.
MaxInner == 3   \* longest child sequence of a block
NumRows == 3    \* batch size
MaxSel == 3     \* longest incoming selection vector
MaxEvents == 2      \* longest input stream of a unit test sink
MaxChecks == 2      \* most checks of a unit test sink
MaxConditions == 2  \* most conditions of a check
NumBuilds == 2      \* builds of sinks from one configuration
MaxQuery == 4       \* longest query string

Rows == 0 .. (NumRows - 1)

SeqsUpTo(S, n) == UNION {[1 .. m -> S] : m \in 0 .. n}

Range(s) == {s[i] : i \in 1 .. Len(s)}

\* s restricted to the elements satisfying Test, in the order of s.
RECURSIVE FilterSeq(_, _)
FilterSeq(s, keep) ==
    IF s = <<>> THEN <<>>
    ELSE IF Head(s) \in keep
         THEN <<Head(s)>> \o FilterSeq(Tail(s), keep)
         ELSE FilterSeq(Tail(s), keep)

---------------------------------------------------------------------------
\* Value, Result<Value, Error>

Null == [kind |-> "null", n |-> 0]
Undefined == [kind |-> "undefined", n |-> 0]
Integer(n) == [kind |-> "integer", n |-> n]

Ok(v) == [ok |-> TRUE, val |-> v, err |-> ""]
Err(e) == [ok |-> FALSE, val |-> Null, err |-> e]

\* TypeDef: the set of possible value shapes and the two flags.
\* The "never" TypeDef has no shape at all.
TypeDef(kinds, fallible, abortable) ==
    [kind |-> kinds, fallible |-> fallible, abortable |-> abortable]

TypeDef_null == TypeDef({"null"}, FALSE, FALSE)
TypeDef_integer == TypeDef({"integer"}, FALSE, FALSE)
TypeDef_never == TypeDef({}, FALSE, FALSE)

is_never(td) == td.kind = {}
is_fallible(td) == td.fallible
is_abortable(td) == td.abortable
with_fallibility(td, fallible) == [td EXCEPT !.fallible = fallible]
with_abortability(td, abortable) == [td EXCEPT !.abortable = abortable]

\* LocalEnv: the inferred type of the one variable of the model, x.
Unbound == [bound |-> FALSE, td |-> TypeDef_null]
Bound(td) == [bound |-> TRUE, td |-> td]
LocalEnvs == {[x |-> Unbound], [x |-> Bound(TypeDef_integer)]}
ExternalEnvs == {"external"}

---------------------------------------------------------------------------
\* The child expressions.

ExprKinds == {"SetX", "XPlus1", "FailIf", "Abort", "AbortIf"}
Blocks == SeqsUpTo(ExprKinds, MaxInner)

\* Context of one record: the record, its variable storage, and the
\* observation log of the stubs (every evaluated child appends itself).
Records == {0, 1}
Context(record, x) == [record |-> record, vars |-> [x |-> x], log |-> <<>>]

\* Expression::resolve of the stubs.
\*   SetX    x = 1            binds x, yields 1
\*   XPlus1  x + 1            fails when x holds no integer
\*   FailIf  fail_if(record)  fails on the records equal to 1, else null
\*   Abort   abort            always fails
\*   AbortIf if record == 0 { abort }
\*                            fails on the records equal to 0, else null
expr_resolve(expr, ctx) ==
    LET seen == [ctx EXCEPT !.log = Append(ctx.log, expr)]
    IN CASE expr = "SetX" ->
              [res |-> Ok(Integer(1)),
               ctx |-> [seen EXCEPT !.vars = [x |-> Integer(1)]]]
         [] expr = "XPlus1" ->
              [res |-> IF ctx.vars.x.kind = "integer"
                       THEN Ok(Integer(ctx.vars.x.n + 1))
                       ELSE Err("can't add type integer to null"),
               ctx |-> seen]
         [] expr = "FailIf" ->
              [res |-> IF ctx.record = 1 THEN Err("fail_if") ELSE Ok(Null),
               ctx |-> seen]
         [] expr = "Abort" ->
              [res |-> Err("aborted"), ctx |-> seen]
         [] expr = "AbortIf" ->
              [res |-> IF ctx.record = 0 THEN Err("aborted") ELSE Ok(Null),
               ctx |-> seen]

\* Expression::type_def of the stubs.
expr_type_def(expr, local, external) ==
    CASE expr = "SetX" -> TypeDef_integer
      [] expr = "XPlus1" ->
           IF local.x.bound /\ local.x.td.kind = {"integer"}
           THEN TypeDef_integer
           ELSE with_fallibility(TypeDef_integer, TRUE)
      [] expr = "FailIf" -> with_fallibility(TypeDef_null, TRUE)
      [] expr = "Abort" -> with_abortability(TypeDef_never, TRUE)
      [] expr = "AbortIf" -> with_abortability(TypeDef_null, TRUE)

\* BatchContext: one resolution slot and one record context per row.
\* Expression::resolve_batch of the stubs: every row named by the selection
\* vector is resolved as resolve does and its slot written; the other rows
\* are left untouched.
expr_resolve_batch(expr, bctx, sv) ==
    [resolved_values |->
        [i \in Rows |-> IF i \in Range(sv)
                        THEN expr_resolve(expr, bctx.rows[i]).res
                        ELSE bctx.resolved_values[i]],
     rows |->
        [i \in Rows |-> IF i \in Range(sv)
                        THEN expr_resolve(expr, bctx.rows[i]).ctx
                        ELSE bctx.rows[i]]]

---------------------------------------------------------------------------
\* Block::resolve

\* Variant of try_for_each that resolves every expression and reports the
\* first error only at the end.
RECURSIVE try_for_each_no_short_circuit(_, _)
try_for_each_no_short_circuit(other, ctx) ==
    IF other = <<>> THEN [res |-> Ok(Null), ctx |-> ctx]
    ELSE LET r == expr_resolve(Head(other), ctx)
             rest == try_for_each_no_short_circuit(Tail(other), r.ctx)
         IN [res |-> IF r.res.ok THEN rest.res ELSE r.res, ctx |-> rest.ctx]

\* other.iter().try_for_each(|expr| expr.resolve(ctx).map(|_| ()))
RECURSIVE try_for_each(_, _)
try_for_each(other, ctx) ==
    IF other = <<>> THEN [res |-> Ok(Null), ctx |-> ctx]
    ELSE LET r == expr_resolve(Head(other), ctx)
         IN IF r.res.ok THEN try_for_each(Tail(other), r.ctx) ELSE r

\* Variant of resolve that puts the variable storage back as it found it.
resolve_restoring(inner, ctx) ==
    IF inner = <<>>
    THEN [panic |-> TRUE, res |-> Err("at least one expression"), ctx |-> ctx]
    ELSE LET last == inner[Len(inner)]
             other == SubSeq(inner, 1, Len(inner) - 1)
             t == try_for_each(other, ctx)
         IN IF ~t.res.ok
            THEN [panic |-> FALSE, res |-> t.res,
                  ctx |-> [t.ctx EXCEPT !.vars = ctx.vars]]
            ELSE LET r == expr_resolve(last, t.ctx)
                 IN [panic |-> FALSE, res |-> r.res,
                     ctx |-> [r.ctx EXCEPT !.vars = ctx.vars]]

\* The outcome of a call: a panic, or the returned Result with the context
\* as the call left it.
resolve(inner, ctx) ==
    IF inner = <<>>
    THEN [panic |-> TRUE, res |-> Err("at least one expression"), ctx |-> ctx]
    ELSE LET last == inner[Len(inner)]
             other == SubSeq(inner, 1, Len(inner) - 1)
             t == try_for_each(other, ctx)
         IN IF ~t.res.ok
            THEN [panic |-> FALSE, res |-> t.res, ctx |-> t.ctx]
            ELSE LET r == expr_resolve(last, t.ctx)
                 IN [panic |-> FALSE, res |-> r.res, ctx |-> r.ctx]

---------------------------------------------------------------------------
\* Block::type_def

type_def_init ==
    [last |-> TypeDef_null, fallible |-> FALSE, abortable |-> FALSE,
     has_terminated |-> FALSE, panic |-> FALSE]

\* Variant of the loop that aggregates the fallibility but keeps, for the
\* abortability, the flag of the last child alone.
RECURSIVE type_def_loop_last_abortable(_, _, _, _)
type_def_loop_last_abortable(exprs, local, external, acc) ==
    IF exprs = <<>> THEN acc
    ELSE IF acc.has_terminated THEN [acc EXCEPT !.panic = TRUE]
    ELSE LET last == expr_type_def(Head(exprs), local, external)
         IN type_def_loop_last_abortable(Tail(exprs), local, external,
               [last |-> last,
                fallible |-> acc.fallible \/ is_fallible(last),
                abortable |-> is_abortable(last),
                has_terminated |-> is_never(last),
                panic |-> FALSE])

\* Variant of the loop that fails as soon as a child is typed "never",
\* whether or not another child follows.
RECURSIVE type_def_loop_eager_assert(_, _, _, _)
type_def_loop_eager_assert(exprs, local, external, acc) ==
    IF exprs = <<>> THEN acc
    ELSE LET last == expr_type_def(Head(exprs), local, external)
         IN IF is_never(last) THEN [acc EXCEPT !.panic = TRUE]
            ELSE type_def_loop_eager_assert(Tail(exprs), local, external,
                   [last |-> last,
                    fallible |-> acc.fallible \/ is_fallible(last),
                    abortable |-> acc.abortable \/ is_abortable(last),
                    has_terminated |-> is_never(last),
                    panic |-> FALSE])

\* Variant of the loop that merges the shapes of all children.
RECURSIVE type_def_loop_merged_kinds(_, _, _, _)
type_def_loop_merged_kinds(exprs, local, external, acc) ==
    IF exprs = <<>> THEN acc
    ELSE IF acc.has_terminated THEN [acc EXCEPT !.panic = TRUE]
    ELSE LET last == expr_type_def(Head(exprs), local, external)
         IN type_def_loop_merged_kinds(Tail(exprs), local, external,
               [last |-> [last EXCEPT !.kind = acc.last.kind \cup last.kind],
                fallible |-> acc.fallible \/ is_fallible(last),
                abortable |-> acc.abortable \/ is_abortable(last),
                has_terminated |-> is_never(last),
                panic |-> FALSE])

\* The loop over self.inner; acc holds the loop's local variables.
RECURSIVE type_def_loop(_, _, _, _)
type_def_loop(exprs, local, external, acc) ==
    IF exprs = <<>> THEN acc
    ELSE IF acc.has_terminated THEN [acc EXCEPT !.panic = TRUE]
    ELSE LET last == expr_type_def(Head(exprs), local, external)
         IN type_def_loop(Tail(exprs), local, external,
               [last |-> last,
                fallible |-> acc.fallible \/ is_fallible(last),
                abortable |-> acc.abortable \/ is_abortable(last),
                has_terminated |-> is_never(last),
                panic |-> FALSE])

\* Variant of type_def that types the children against the caller's
\* environment.
type_def_caller_env(inner, self_local_env, caller_local, external) ==
    LET acc == type_def_loop(inner, caller_local, external, type_def_init)
    IN IF acc.panic
       THEN [panic |-> TRUE]
       ELSE [panic |-> FALSE,
             td |-> with_abortability(
                        with_fallibility(acc.last, acc.fallible),
                        acc.abortable)]

\* self = (inner, local_env); state = (caller_local, external).
type_def(inner, self_local_env, caller_local, external) ==
    LET acc == type_def_loop(inner, self_local_env, external, type_def_init)
    IN IF acc.panic
       THEN [panic |-> TRUE]
       ELSE [panic |-> FALSE,
             td |-> with_abortability(
                        with_fallibility(acc.last, acc.fallible),
                        acc.abortable)]

---------------------------------------------------------------------------
\* Block::resolve_batch, one step per child

\* Vec::resize(new_len, value), Vec::copy_from_slice(src) (the lengths are
\* equal after the resize) and Vec::truncate(len), as used on the scratch
\* buffers.

\* Variant of resize that only ever grows the vector.
resize_grow_only(v, new_len, value) ==
    IF new_len <= Len(v) THEN v
    ELSE [j \in 1 .. new_len |-> IF j <= Len(v) THEN v[j] ELSE value]

resize(v, new_len, value) ==
    [j \in 1 .. new_len |-> IF j <= Len(v) THEN v[j] ELSE value]

\* Variant of copy_from_slice that copies nothing.
copy_from_slice_skipped(dst, src) == dst

copy_from_slice(dst, src) ==
    [j \in 1 .. Len(dst) |-> IF j <= Len(src) THEN src[j] ELSE dst[j]]

\* Variant of truncate that leaves the vector as it is.
truncate_kept(v, len) == v

truncate(v, len) == IF len < Len(v) THEN SubSeq(v, 1, len) ELSE v

\* Variants of the scan: one that keeps the failed rows instead of the
\* successful ones, one that keeps every row, one that scans the whole
\* batch instead of the selection vector, one that fills the buffer back
\* to front.
scan_ok_inverted(over, resolved_values) ==
    FilterSeq(over, {i \in Rows : ~resolved_values[i].ok})

scan_ok_unfiltered(over, resolved_values) == over

scan_ok_whole_batch(over, resolved_values) ==
    FilterSeq([j \in 1 .. NumRows |-> j - 1],
              {i \in Rows : resolved_values[i].ok})

scan_ok_reversed(over, resolved_values) ==
    LET kept == FilterSeq(over, {i \in Rows : resolved_values[i].ok})
    IN [j \in 1 .. Len(kept) |-> kept[Len(kept) + 1 - j]]

\* Rows of `over` whose slot is a success, in order (the scan that fills
\* selection_vector_other).
scan_ok(over, resolved_values) ==
    FilterSeq(over, {i \in Rows : resolved_values[i].ok})

VARIABLES
    inner,                   \* Block.inner
    local_env,               \* Block.local_env
    selection_vector_this,   \* Block.selection_vector_this
    selection_vector_other,  \* Block.selection_vector_other
    pc,                      \* "idle", "loop" (inside resolve_batch), "done"
    op,                      \* the operation called
    selection_vector,        \* resolve_batch: the incoming selection vector
    ctx,                     \* resolve_batch: the BatchContext
    next_child,              \* resolve_batch: position of the loop
    ret,                     \* resolve / type_def: the outcome of the call
    caller_env,              \* type_def: the caller's LocalEnv
    entry,                   \* observation: the argument as the call found it
    handed,                  \* observation: per child run, the selection
                             \* vector handed to it, the row contexts it
                             \* found and the slots it left
    found,                   \* observation: the two scratch buffers as the
                             \* call of resolve_batch found them
    frames,                  \* two invocations of resolve_batch on the one
                             \* Block: the arguments and loop position of each
    exclusive,               \* whether an invocation runs to completion
                             \* before the other may start
    llvm,                    \* emit_llvm: the basic blocks emitted so far
                             \* and the position of the builder
    sink,                    \* UnitTestSink::run: the sink and its locals
    input,                   \* UnitTestSink::run: the input stream
    channel,                 \* the oneshot channel of the test result
    config_tx,               \* UnitTestSinkConfig.result_tx (shared)
    lock,                    \* the builder holding the mutex of result_tx
    builds,                  \* UnitTestSinkConfig::build: one per builder
    take_order,              \* observation: builders in the order they
                             \* took from result_tx
    query                    \* parse_query_string: argument and result

vars == <<inner, local_env, selection_vector_this, selection_vector_other,
          pc, op, selection_vector, ctx, next_child, ret, caller_env,
          entry, handed, found, frames, exclusive, llvm, sink, input,
          channel, config_tx, lock, builds, take_order, query>>

blockVars == <<inner, local_env, selection_vector_this, selection_vector_other,
               pc, op, selection_vector, ctx, next_child, ret, caller_env,
               entry, handed, found>>
reentrantVars == <<frames, exclusive>>
llvmVars == <<llvm>>
sinkVars == <<sink, input, channel>>
buildVars == <<config_tx, lock, builds, take_order>>
queryVars == <<query>>

\* What the operations on a single Block leave alone.
outsideBlock == <<reentrantVars, llvmVars, sinkVars, buildVars, queryVars>>
\* What two invocations of resolve_batch leave alone.
outsideReentrant == <<llvmVars, sinkVars, buildVars, queryVars>>

block == <<inner, local_env>>
buffers == <<selection_vector_this, selection_vector_other>>

NoContext == Context(0, Undefined)
NoBatch == [resolved_values |-> [i \in Rows |-> Ok(Null)],
            rows |-> [i \in Rows |-> NoContext]]
NoRet == [panic |-> FALSE]

Invocations == {1, 2}
NoFrame == [pc |-> "idle", selection_vector |-> <<>>, ctx |-> NoBatch,
            next_child |-> 1, handed |-> <<>>]

\* No second invocation.
ReentrantOff ==
    /\ frames = [f \in Invocations |-> NoFrame]
    /\ exclusive = TRUE

\* Nothing is being lowered.
NoLlvm == [phase |-> "off", blocks |-> <<>>, at |-> 0, begin |-> 0,
           end |-> 0, next_child |-> 1, state |-> [x |-> Unbound]]
LlvmOff == llvm = NoLlvm

\* No sink is running.
NoSink == [pc |-> "off", check |-> [kind |-> "NoOp", checks |-> <<>>],
           result_tx |-> "None", output_events |-> <<>>,
           test_errors |-> <<>>, ret |-> "none"]
NoInput == [events |-> <<>>, closed |-> FALSE]
NoChannel == [receiver |-> "alive", sends |-> 0, delivered |-> <<>>]
SinkOff ==
    /\ sink = NoSink
    /\ input = NoInput
    /\ channel = NoChannel

\* No sink is being built.
BuildOff ==
    /\ config_tx = "None"
    /\ lock = 0
    /\ builds = <<>>
    /\ take_order = <<>>

\* No query string is being parsed.
NoQuery ==
    [pc |-> "off", value |-> <<>>, query_string |-> <<>>, result |-> <<>>]
QueryOff == query = NoQuery

OutsideReentrantOff == LlvmOff /\ SinkOff /\ BuildOff /\ QueryOff
OutsideBlockOff == ReentrantOff /\ OutsideReentrantOff

\* No operation of the Block is under way (the node itself is whatever the
\* specification at hand makes it).
BlockCallsOff ==
    /\ selection_vector_this = <<>>
    /\ selection_vector_other = <<>>
    /\ pc = "off"
    /\ op = "none"
    /\ selection_vector = <<>>
    /\ ctx = NoBatch
    /\ next_child = 1
    /\ ret = NoRet
    /\ caller_env = [x |-> Unbound]
    /\ entry = NoContext
    /\ handed = <<>>
    /\ found = <<<<>>, <<>>>>

\* No Block at all.
BlockOff ==
    /\ inner = <<>>
    /\ local_env = [x |-> Unbound]
    /\ BlockCallsOff
    /\ ReentrantOff

\* Block::new
Init ==
    /\ inner \in Blocks
    /\ local_env \in LocalEnvs
    /\ selection_vector_this = <<>>
    /\ selection_vector_other = <<>>
    /\ pc = "idle"
    /\ op = "none"
    /\ selection_vector = <<>>
    /\ ctx = NoBatch
    /\ next_child = 1
    /\ ret = NoRet
    /\ caller_env = [x |-> Unbound]
    /\ entry = NoContext
    /\ handed = <<>>
    /\ found = <<<<>>, <<>>>>
    /\ OutsideBlockOff

\* A call of Block::resolve on one record's context.
Resolve ==
    /\ pc = "idle"
    /\ \E record \in Records, x \in {Undefined, Integer(7)} :
         /\ entry' = Context(record, x)
         /\ ret' = resolve(inner, Context(record, x))
    /\ pc' = "done"
    /\ op' = "resolve"
    /\ UNCHANGED <<block, buffers, selection_vector, ctx, next_child,
                   caller_env, handed, found>>
    /\ UNCHANGED outsideBlock

\* A call of Block::type_def.
TypeDefCall ==
    /\ pc = "idle"
    /\ \E caller \in LocalEnvs, external \in ExternalEnvs :
         /\ entry' = caller
         /\ caller_env' = caller
         /\ ret' = type_def(inner, local_env, caller, external)
    /\ pc' = "done"
    /\ op' = "type_def"
    /\ UNCHANGED <<block, buffers, selection_vector, ctx, next_child,
                   handed, found>>
    /\ UNCHANGED outsideBlock

\* The record contexts a row may hold when the block is reached: x is
\* unbound, or was bound before the block.
RowContexts ==
    {Context(0, Undefined), Context(1, Undefined), Context(0, Integer(7))}

\* The batches a call of resolve_batch may find: every row has a record
\* context and a slot left by whatever ran before (an error on the even
\* rows, a value on the odd ones).
Batches ==
    {[resolved_values |-> [i \in Rows |-> IF i % 2 = 0
                                          THEN Err("stale") ELSE Ok(Null)],
      rows |-> rws] : rws \in [Rows -> RowContexts]}

SelectionVectors == SeqsUpTo(Rows, MaxSel)

\* resolve_batch on a single-child block: the call is forwarded.
ResolveBatchFastOn(b, sv) ==
    /\ pc = "idle"
    /\ Len(inner) = 1
    /\ entry' = b
    /\ selection_vector' = sv
    /\ ctx' = expr_resolve_batch(inner[1], b, sv)
    /\ handed' = <<[sel |-> sv, rows |-> b.rows,
                    slots |-> expr_resolve_batch(inner[1], b, sv).resolved_values]>>
    /\ found' = <<selection_vector_this, selection_vector_other>>
    /\ pc' = "done"
    /\ op' = "resolve_batch"
    /\ UNCHANGED <<block, buffers, next_child, ret, caller_env>>
    /\ UNCHANGED outsideBlock

ResolveBatchFast ==
    /\ pc = "idle"
    /\ \E b \in Batches, sv \in SelectionVectors : ResolveBatchFastOn(b, sv)

\* resolve_batch, general path: selection_vector_this is resized to the
\* incoming selection vector and becomes a copy of it.
ResolveBatchBeginOn(b, sv) ==
    /\ pc = "idle"
    /\ Len(inner) # 1
    /\ entry' = b
    /\ ctx' = b
    /\ selection_vector' = sv
    /\ selection_vector_this' =
           copy_from_slice(resize(selection_vector_this, Len(sv), 0), sv)
    /\ handed' = <<>>
    /\ found' = <<selection_vector_this, selection_vector_other>>
    /\ next_child' = 1
    /\ pc' = IF Len(inner) = 0 THEN "done" ELSE "loop"
    /\ op' = "resolve_batch"
    /\ UNCHANGED <<block, selection_vector_other, ret, caller_env>>
    /\ UNCHANGED outsideBlock

ResolveBatchBegin ==
    /\ pc = "idle"
    /\ \E b \in Batches, sv \in SelectionVectors : ResolveBatchBeginOn(b, sv)

\* One iteration of the loop over self.inner.
ResolveBatchStep ==
    /\ pc = "loop"
    /\ LET after == expr_resolve_batch(inner[next_child], ctx,
                                       selection_vector_this)
       IN /\ ctx' = after
          /\ handed' = Append(handed, [sel |-> selection_vector_this,
                                       rows |-> ctx.rows,
                                       slots |-> after.resolved_values])
          \* truncate(0), the scan, and the swap of the two buffers
          /\ selection_vector_this' =
                 truncate(selection_vector_other, 0)
                     \o scan_ok(selection_vector, after.resolved_values)
          /\ selection_vector_other' = selection_vector_this
    /\ next_child' = next_child + 1
    /\ pc' = IF next_child = Len(inner) THEN "done" ELSE "loop"
    /\ UNCHANGED <<block, op, selection_vector, ret, caller_env, entry,
                   found>>
    /\ UNCHANGED outsideBlock

Next ==
    \/ Resolve
    \/ TypeDefCall
    \/ ResolveBatchFast
    \/ ResolveBatchBegin
    \/ ResolveBatchStep

Spec == Init /\ [][Next]_vars

---------------------------------------------------------------------------
\* The same Block called again and again: resolve_batch returns, its
\* arguments go away, and the two scratch buffers stay in the node.

ReuseBlocks == SeqsUpTo({"SetX", "FailIf"}, MaxInner)

\* The batches of these calls: no row fails fail_if, or the even rows do, or
\* the odd rows do.
ReuseBatches ==
    {b \in Batches :
        /\ \A i \in Rows : b.rows[i].vars.x = Undefined
        /\ \E parity \in {0, 1, 2} :
              \A i \in Rows : (b.rows[i].record = 1) <=> (i % 2 = parity)}

InitReuse ==
    /\ Init
    /\ inner \in ReuseBlocks
    /\ local_env = [x |-> Unbound]

ReuseFast ==
    /\ pc = "idle"
    /\ \E b \in ReuseBatches, sv \in SelectionVectors : ResolveBatchFastOn(b, sv)

ReuseBegin ==
    /\ pc = "idle"
    /\ \E b \in ReuseBatches, sv \in SelectionVectors : ResolveBatchBeginOn(b, sv)

\* resolve_batch returns to its caller.
Return ==
    /\ pc = "done"
    /\ op = "resolve_batch"
    /\ pc' = "idle"
    /\ op' = "none"
    /\ selection_vector' = <<>>
    /\ ctx' = NoBatch
    /\ next_child' = 1
    /\ entry' = NoContext
    /\ handed' = <<>>
    /\ found' = <<<<>>, <<>>>>
    /\ UNCHANGED <<block, buffers, ret, caller_env>>
    /\ UNCHANGED outsideBlock

NextReuse ==
    \/ ReuseFast
    \/ ReuseBegin
    \/ ResolveBatchStep
    \/ Return

SpecReuse == InitReuse /\ [][NextReuse]_vars

---------------------------------------------------------------------------
\* Two invocations of resolve_batch on the same Block. Each has its own
\* batch context, selection vector and loop position; the two scratch
\* buffers are the node's. When the invocations are not exclusive their
\* child steps interleave.

\* The batch of both invocations: the odd rows fail fail_if.
ReentrantBatch ==
    [resolved_values |-> [i \in Rows |-> IF i % 2 = 0
                                         THEN Err("stale") ELSE Ok(Null)],
     rows |-> [i \in Rows |-> Context(i % 2, Undefined)]]

\* Selection vectors without a repeated row.
ReentrantSelections ==
    {sv \in SelectionVectors : \A j, k \in 1 .. Len(sv) : sv[j] = sv[k] => j = k}

InitReentrant ==
    /\ inner \in ReuseBlocks
    /\ local_env = [x |-> Unbound]
    /\ BlockCallsOff
    /\ frames = [f \in Invocations |-> NoFrame]
    /\ exclusive \in BOOLEAN
    /\ OutsideReentrantOff

\* An invocation may start while another is inside its loop only when
\* access to the Block is not exclusive.
MayStart(f) ==
    /\ frames[f].pc = "idle"
    /\ exclusive => \A g \in Invocations : frames[g].pc # "loop"

\* Invocation f enters resolve_batch on a single-child block.
FrameFast(f) ==
    /\ MayStart(f)
    /\ Len(inner) = 1
    /\ \E sv \in ReentrantSelections :
         frames' = [frames EXCEPT ![f] =
             [pc |-> "done", selection_vector |-> sv,
              ctx |-> expr_resolve_batch(inner[1], ReentrantBatch, sv),
              next_child |-> 1,
              handed |-> <<[sel |-> sv,
                            before |-> ReentrantBatch.resolved_values]>>]]
    /\ UNCHANGED <<blockVars, exclusive, outsideReentrant>>

\* Invocation f enters the general path: the node's selection_vector_this
\* becomes a copy of its selection vector.
FrameBegin(f) ==
    /\ MayStart(f)
    /\ Len(inner) # 1
    /\ \E sv \in ReentrantSelections :
         /\ frames' = [frames EXCEPT ![f] =
                [pc |-> IF Len(inner) = 0 THEN "done" ELSE "loop",
                 selection_vector |-> sv, ctx |-> ReentrantBatch,
                 next_child |-> 1, handed |-> <<>>]]
         /\ selection_vector_this' =
                copy_from_slice(resize(selection_vector_this, Len(sv), 0), sv)
    /\ UNCHANGED <<inner, local_env, selection_vector_other, pc, op,
                   selection_vector, ctx, next_child, ret, caller_env, entry,
                   handed, found, exclusive, outsideReentrant>>

\* One iteration of the loop of invocation f, on the node's buffers.
FrameStep(f) ==
    /\ frames[f].pc = "loop"
    /\ LET fr == frames[f]
           after == expr_resolve_batch(inner[fr.next_child], fr.ctx,
                                       selection_vector_this)
       IN /\ frames' = [frames EXCEPT ![f] =
                 [pc |-> IF fr.next_child = Len(inner) THEN "done" ELSE "loop",
                  selection_vector |-> fr.selection_vector,
                  ctx |-> after,
                  next_child |-> fr.next_child + 1,
                  handed |-> Append(fr.handed,
                                [sel |-> selection_vector_this,
                                 before |-> fr.ctx.resolved_values])]]
          /\ selection_vector_this' =
                 truncate(selection_vector_other, 0)
                     \o scan_ok(fr.selection_vector, after.resolved_values)
          /\ selection_vector_other' = selection_vector_this
    /\ UNCHANGED <<inner, local_env, pc, op, selection_vector, ctx,
                   next_child, ret, caller_env, entry, handed, found,
                   exclusive, outsideReentrant>>

NextReentrant ==
    \/ \E f \in Invocations : FrameFast(f)
    \/ \E f \in Invocations : FrameBegin(f)
    \/ \E f \in Invocations : FrameStep(f)

SpecReentrant == InitReentrant /\ [][NextReentrant]_vars

---------------------------------------------------------------------------
\* Block::emit_llvm: the lowering of a block to basic blocks.
\*
\* The code generation context and the lowering of the children are not
\* part of the sources at hand. A basic block is the list of the children
\* whose code it holds and a terminator; the lowering of a child appends
\* the child to the block the builder is positioned at.

NoTerm == [kind |-> "none", cond |-> "", then |-> 0, else |-> 0]
Br(to) == [kind |-> "br", cond |-> "", then |-> to, else |-> to]
CondBr(cond, then, else) ==
    [kind |-> "condbr", cond |-> cond, then |-> then, else |-> else]

append_basic_block(cx, name) ==
    [cx EXCEPT !.blocks = Append(@, [name |-> name, code |-> <<>>,
                                     term |-> NoTerm])]
build_unconditional_branch(cx, to) ==
    [cx EXCEPT !.blocks[cx.at].term = Br(to)]
build_conditional_branch(cx, cond, then, else) ==
    [cx EXCEPT !.blocks[cx.at].term = CondBr(cond, then, else)]
position_at_end(cx, b) == [cx EXCEPT !.at = b]

\* ctx.emit_llvm_for_ref(expr, state, ctx.result_ref())
emit_llvm_for_ref(cx, k) ==
    [cx EXCEPT !.blocks[cx.at].code = Append(@, k)]

\* ctx.emit_llvm_abortable(expr, state, ctx.result_ref(), abort_end_block,
\* vec![]): the code of the child, and for an abortable child a branch to
\* abort_end_block on abort.
emit_llvm_abortable(cx, k, abortable, abort_end_block) ==
    LET emitted == emit_llvm_for_ref(cx, k)
        next == Len(emitted.blocks) + 1
    IN IF abortable
       THEN position_at_end(
                build_conditional_branch(
                    append_basic_block(emitted, "abort_next"),
                    "is_abort", abort_end_block, next),
                next)
       ELSE emitted

\* Variant of the loop body with the two targets of the branch on is_err
\* exchanged.
emit_child_swapped(cx, k, expr, state, external) ==
    LET type_def_k == expr_type_def(expr, state, external)
    IN IF is_fallible(type_def_k)
       THEN LET emitted == emit_llvm_for_ref(cx, k)
                block_next_block == Len(emitted.blocks) + 1
            IN position_at_end(
                   build_conditional_branch(
                       append_basic_block(emitted, "block_next"),
                       "is_err", block_next_block, cx.end),
                   block_next_block)
       ELSE emit_llvm_abortable(cx, k, is_abortable(type_def_k), cx.end)

\* The body of the loop over self.inner, for child k.
emit_child(cx, k, expr, state, external) ==
    LET type_def_k == expr_type_def(expr, state, external)
    IN IF is_fallible(type_def_k)
       THEN LET emitted == emit_llvm_for_ref(cx, k)
                block_next_block == Len(emitted.blocks) + 1
            IN position_at_end(
                   build_conditional_branch(
                       append_basic_block(emitted, "block_next"),
                       "is_err", cx.end, block_next_block),
                   block_next_block)
       ELSE emit_llvm_abortable(cx, k, is_abortable(type_def_k), cx.end)

InitLlvm ==
    /\ inner \in Blocks
    /\ local_env \in LocalEnvs
    /\ BlockCallsOff
    /\ ReentrantOff
    /\ llvm = NoLlvm
    /\ SinkOff /\ BuildOff /\ QueryOff

outsideLlvm == <<blockVars, reentrantVars, sinkVars, buildVars, queryVars>>

\* emit_llvm is entered with the builder positioned at a block of the
\* caller: the entry and exit blocks are appended and the builder moves to
\* the entry block.
EmitBegin ==
    /\ llvm.phase = "off"
    /\ \E state \in LocalEnvs :
         LET caller == [NoLlvm EXCEPT
                          !.blocks = <<[name |-> "caller", code |-> <<>>,
                                        term |-> NoTerm]>>,
                          !.at = 1, !.state = state]
             appended == append_basic_block(
                             append_basic_block(caller, "block_begin"),
                             "block_end")
             named == [appended EXCEPT !.begin = 2, !.end = 3]
         IN llvm' = [position_at_end(
                         build_unconditional_branch(named, named.begin),
                         named.begin)
                     EXCEPT !.phase = "loop"]
    /\ UNCHANGED outsideLlvm

\* One iteration of the loop over self.inner.
EmitChild ==
    /\ llvm.phase = "loop"
    /\ llvm.next_child <= Len(inner)
    /\ \E external \in ExternalEnvs :
         llvm' = [emit_child(llvm, llvm.next_child, inner[llvm.next_child],
                             llvm.state, external)
                  EXCEPT !.next_child = llvm.next_child + 1]
    /\ UNCHANGED outsideLlvm

\* The lowering of a child fails and emit_llvm returns the error.
EmitChildFails ==
    /\ llvm.phase = "loop"
    /\ llvm.next_child <= Len(inner)
    /\ llvm' = [llvm EXCEPT !.phase = "failed"]
    /\ UNCHANGED outsideLlvm

\* After the loop: the branch to the exit block, and Ok(()).
EmitEnd ==
    /\ llvm.phase = "loop"
    /\ llvm.next_child > Len(inner)
    /\ llvm' = [position_at_end(build_unconditional_branch(llvm, llvm.end),
                                llvm.end)
                EXCEPT !.phase = "done"]
    /\ UNCHANGED outsideLlvm

NextLlvm ==
    \/ EmitBegin
    \/ EmitChild
    \/ EmitChildFails
    \/ EmitEnd

SpecLlvm == InitLlvm /\ [][NextLlvm]_vars

---------------------------------------------------------------------------
\* UnitTestSink (src/config/unit_test/unit_test_components.rs)
\*
\* Events and conditions are not part of the sources at hand: an event is
\* one of two values and a condition is the set of the events it accepts,
\* here none of them or one of them.
\* A line of test_errors is kept as the format string that produced it and
\* the values formatted into it (the index of the check or condition, the
\* event the condition rejected); the transform ids and the test name,
\* which are only copied into the text, are left out.

Events == {0, 1}
Conditions == {{}} \cup {{e} : e \in Events}

Line(kind, index, event) == [kind |-> kind, index |-> index, event |-> event]
NoEventsLine == Line("no events received", -1, -1)
ConditionLine(j, event) == Line("condition", j, event)
PreambleLine(i) == Line("failed conditions", i, -1)
PayloadsLine == Line("output payloads", -1, -1)
NoOutputsLine == Line("expected no outputs", -1, -1)

\* UnitTestSinkCheck
Checks(checks) == [kind |-> "Checks", checks |-> checks]
NoOutputs == [kind |-> "NoOutputs", checks |-> <<>>]
NoOp == [kind |-> "NoOp", checks |-> <<>>]
SinkChecks ==
    {Checks(checks) :
        checks \in SeqsUpTo(SeqsUpTo(Conditions, MaxConditions), MaxChecks)}
    \cup {NoOutputs, NoOp}

\* condition.check_with_context(event).0 is Ok
check_with_context(condition, event) == event \in condition

\* Variant of the loop over the events that keeps, when an event satisfies
\* the condition, the errors collected before it.
RECURSIVE condition_errors_not_cleared(_, _, _, _)
condition_errors_not_cleared(j, condition, events, acc) ==
    IF events = <<>> THEN acc
    ELSE IF check_with_context(condition, Head(events)) THEN acc
    ELSE condition_errors_not_cleared(j, condition, Tail(events),
             Append(acc, ConditionLine(j, Head(events))))

\* The loop over output_events for condition j; acc is condition_errors.
RECURSIVE condition_errors(_, _, _, _)
condition_errors(j, condition, events, acc) ==
    IF events = <<>> THEN acc
    ELSE IF check_with_context(condition, Head(events)) THEN <<>>
    ELSE condition_errors(j, condition, Tail(events),
             Append(acc, ConditionLine(j, Head(events))))

\* The loop over the conditions of check i, from condition j on (indices as
\* enumerate() counts them, from 0); acc is check_errors.
RECURSIVE conditions_loop(_, _, _, _)
conditions_loop(check, j, events, acc) ==
    IF j >= Len(check) THEN acc
    ELSE conditions_loop(check, j + 1, events,
             acc \o condition_errors(j, check[j + 1], events, <<>>))

\* The errors of check i, with the preamble when there are any.
check_errors(i, check, events) ==
    LET errors == conditions_loop(check, 0, events, <<>>)
    IN IF errors # <<>> THEN <<PreambleLine(i)>> \o errors ELSE errors

\* The loop over the checks, from check i on; acc is result.test_errors.
RECURSIVE checks_loop(_, _, _, _)
checks_loop(checks, i, events, acc) ==
    IF i >= Len(checks) THEN acc
    ELSE checks_loop(checks, i + 1, events,
             acc \o check_errors(i, checks[i + 1], events))

\* Variant of the match on self.check without the test for no events.
test_errors_unguarded(check, output_events) ==
    CASE check.kind = "Checks" ->
            LET errors == checks_loop(check.checks, 0, output_events, <<>>)
            IN IF errors # <<>> THEN Append(errors, PayloadsLine)
               ELSE errors
      [] check.kind = "NoOutputs" ->
            IF output_events # <<>> THEN <<NoOutputsLine>> ELSE <<>>
      [] check.kind = "NoOp" -> <<>>

\* The match on self.check: result.test_errors.
test_errors(check, output_events) ==
    CASE check.kind = "Checks" ->
            IF output_events = <<>> THEN <<NoEventsLine>>
            ELSE LET errors == checks_loop(check.checks, 0, output_events,
                                           <<>>)
                 IN IF errors # <<>> THEN Append(errors, PayloadsLine)
                    ELSE errors
      [] check.kind = "NoOutputs" ->
            IF output_events # <<>> THEN <<NoOutputsLine>> ELSE <<>>
      [] check.kind = "NoOp" -> <<>>

\* oneshot::Sender::send: the result reaches the receiver unless it was
\* dropped.
send(chan, result) ==
    [chan EXCEPT !.sends = @ + 1,
                 !.delivered = IF chan.receiver = "alive"
                               THEN Append(@, result) ELSE @]

\* Variant of the end of run that sends whether or not the sink holds a
\* sender.
report_always(result_tx, chan, result) == send(chan, result)

\* if let Some(tx) = self.result_tx { tx.send(result) ... }
report(result_tx, chan, result) ==
    IF result_tx = "Some" THEN send(chan, result) ELSE chan

outsideSink == <<blockVars, reentrantVars, llvmVars, buildVars, queryVars>>

InitSink ==
    /\ BlockOff
    /\ LlvmOff /\ BuildOff /\ QueryOff
    /\ \E check \in SinkChecks, tx \in {"Some", "None"} :
         sink = [NoSink EXCEPT !.pc = "collect", !.check = check,
                               !.result_tx = tx]
    /\ \E events \in SeqsUpTo(Events, MaxEvents), closed \in BOOLEAN :
         input = [events |-> events, closed |-> closed]
    /\ channel = NoChannel

\* input.next().await yields the next event of the stream.
SinkCollect ==
    /\ sink.pc = "collect"
    /\ Len(sink.output_events) < Len(input.events)
    /\ sink' = [sink EXCEPT !.output_events =
                   Append(@, input.events[Len(sink.output_events) + 1])]
    /\ UNCHANGED <<input, channel, outsideSink>>

\* Variant: the loop is left as soon as no event is at hand.
SinkStreamEnd_when_idle ==
    /\ sink.pc = "collect"
    /\ sink' = [sink EXCEPT !.pc = "check"]
    /\ UNCHANGED <<input, channel, outsideSink>>

\* input.next().await yields None: the stream has ended.
SinkStreamEnd ==
    /\ sink.pc = "collect"
    /\ Len(sink.output_events) = Len(input.events)
    /\ input.closed
    /\ sink' = [sink EXCEPT !.pc = "check"]
    /\ UNCHANGED <<input, channel, outsideSink>>

\* The match on self.check.
SinkCheck ==
    /\ sink.pc = "check"
    /\ sink' = [sink EXCEPT
                  !.pc = "send",
                  !.test_errors = test_errors(sink.check, sink.output_events)]
    /\ UNCHANGED <<input, channel, outsideSink>>

\* The result is sent if the sink holds a sender, and run returns Ok(()).
SinkSend ==
    /\ sink.pc = "send"
    /\ channel' = report(sink.result_tx, channel, sink.test_errors)
    /\ sink' = [sink EXCEPT !.pc = "returned", !.result_tx = "None",
                            !.ret = "Ok"]
    /\ UNCHANGED <<input, outsideSink>>

\* The receiving end of the channel is dropped.
DropReceiver ==
    /\ sink.pc # "off" \/ builds # <<>>
    /\ channel.receiver = "alive"
    /\ channel' = [channel EXCEPT !.receiver = "dropped"]
    /\ UNCHANGED <<sink, input, outsideSink>>

SinkStep == SinkCollect \/ SinkStreamEnd \/ SinkCheck \/ SinkSend

NextSink ==
    \/ SinkCollect
    \/ SinkStreamEnd
    \/ SinkCheck
    \/ SinkSend
    \/ DropReceiver

\* The task of the sink is polled until run returns; the stream hands over
\* the events it has.
SpecSink == InitSink /\ [][NextSink]_vars /\ WF_vars(SinkStep)

---------------------------------------------------------------------------
\* UnitTestSinkConfig::build on a configuration and its clones, which share
\* result_tx: Arc<Mutex<Option<Sender>>>.  Each builder is one call of
\* build followed by the run of the sink it built.

Builders == 1 .. NumBuilds

\* The checks the shared configuration may carry.
BuildChecks == {NoOp, NoOutputs, Checks(<<>>), Checks(<< <<{0}>> >>)}

\* Variant of Option::take that hands out the value and leaves it in place.
take_cloned(option) == [value |-> option, left |-> option]

\* Option::take: the value is moved out and None is left behind.
take(option) == [value |-> option, left |-> "None"]

NoBuild(check) ==
    [pc |-> "start", check |-> check, result_tx |-> "None", got |-> "none",
     output_events |-> <<>>, test_errors |-> <<>>, reported |-> FALSE]

outsideBuild == <<blockVars, reentrantVars, llvmVars, queryVars, sink, input>>

InitBuild ==
    /\ BlockOff
    /\ LlvmOff /\ QueryOff
    /\ sink = NoSink /\ input = NoInput /\ channel = NoChannel
    /\ config_tx \in {"Some", "None"}
    /\ lock = 0
    /\ \E check \in BuildChecks : builds = [b \in Builders |-> NoBuild(check)]
    /\ take_order = <<>>

\* self.result_tx.lock().await: the mutex is free and the builder gets it.
BuildLock(b) ==
    /\ builds[b].pc = "start"
    /\ lock = 0
    /\ lock' = b
    /\ builds' = [builds EXCEPT ![b].pc = "locked"]
    /\ UNCHANGED <<config_tx, take_order, channel, outsideBuild>>

\* .take() under the guard, which is dropped at the end of the statement;
\* the sink is built around what was taken.
BuildTake(b) ==
    /\ builds[b].pc = "locked"
    /\ lock = b
    /\ LET taken == take(config_tx)
       IN /\ config_tx' = taken.left
          /\ builds' = [builds EXCEPT ![b].pc = "built",
                                      ![b].got = taken.value,
                                      ![b].result_tx = taken.value]
    /\ lock' = 0
    /\ take_order' = Append(take_order, b)
    /\ UNCHANGED <<channel, outsideBuild>>

\* UnitTestSink::run of the sink of builder b: input.next().await yields
\* an event.  The run is suspended at every such await, where the other
\* builders and sinks take their steps.
BuiltSinkCollect(b) ==
    /\ builds[b].pc = "built"
    /\ Len(builds[b].output_events) < MaxEvents
    /\ \E event \in Events :
         builds' = [builds EXCEPT ![b].output_events = Append(@, event)]
    /\ UNCHANGED <<config_tx, lock, take_order, channel, outsideBuild>>

\* input.next().await yields None; the rest of run, which awaits nothing:
\* the match on self.check, the send of the result, Ok(()).
BuiltSinkFinish(b) ==
    /\ builds[b].pc = "built"
    /\ LET errors == test_errors(builds[b].check, builds[b].output_events)
       IN /\ channel' = report(builds[b].result_tx, channel, errors)
          /\ builds' = [builds EXCEPT
                          ![b].pc = "ran",
                          ![b].test_errors = errors,
                          ![b].reported = (channel'.sends > channel.sends),
                          ![b].result_tx = "None"]
    /\ UNCHANGED <<config_tx, lock, take_order, outsideBuild>>

NextBuild ==
    \/ \E b \in Builders : BuildLock(b)
    \/ \E b \in Builders : BuildTake(b)
    \/ \E b \in Builders : BuiltSinkCollect(b)
    \/ \E b \in Builders : BuiltSinkFinish(b)
    \/ DropReceiver

SpecBuild == InitBuild /\ [][NextBuild]_vars

---------------------------------------------------------------------------
\* parse_query_string (lib/vrl/stdlib/src/parse_query_string.rs)
\*
\* A byte string is a sequence over QueryBytes.  form_urlencoded::parse and
\* url_util::parse_query are not part of the sources at hand; they are
\* modelled after the url crate and the tests of the function.  Percent
\* escapes are outside the alphabet.

QueryBytes == {"?", "a", "=", "&", "+"}
QueryStrings == SeqsUpTo(QueryBytes, MaxQuery)

\* The segments of s between the separators sep; cur is the segment being
\* read.
RECURSIVE split(_, _, _)
split(s, sep, cur) ==
    IF s = <<>> THEN <<cur>>
    ELSE IF Head(s) = sep THEN <<cur>> \o split(Tail(s), sep, <<>>)
    ELSE split(Tail(s), sep, Append(cur, Head(s)))

\* The position of the first '=' of a segment, or 0.
RECURSIVE position(_, _, _)
position(s, byte, n) ==
    IF s = <<>> THEN 0
    ELSE IF Head(s) = byte THEN n
    ELSE position(Tail(s), byte, n + 1)

\* Decoding of a name or value: '+' stands for a space.
decode(s) == [n \in 1 .. Len(s) |-> IF s[n] = "+" THEN " " ELSE s[n]]

\* form_urlencoded::parse: the name and value of every non-empty segment.
form_urlencoded_parse(bytes) ==
    LET segments == SelectSeq(split(bytes, "&", <<>>),
                              LAMBDA seg : seg # <<>>)
        pair(seg) ==
            LET eq == position(seg, "=", 1)
            IN IF eq = 0 THEN <<decode(seg), <<>>>>
               ELSE <<decode(SubSeq(seg, 1, eq - 1)),
                      decode(SubSeq(seg, eq + 1, Len(seg)))>>
    IN [n \in 1 .. Len(segments) |-> pair(segments[n])]

Bytes(v) == [kind |-> "bytes", value |-> v]
Array(vs) == [kind |-> "array", value |-> vs]
EmptyObject == <<>>

\* url_util::parse_query: an object of the names; a name that occurs again
\* gets the array of its values.
RECURSIVE parse_query(_, _)
parse_query(pairs, acc) ==
    IF pairs = <<>> THEN acc
    ELSE LET k == Head(pairs)[1]
             v == Head(pairs)[2]
             value == IF k \notin DOMAIN acc THEN Bytes(v)
                      ELSE IF acc[k].kind = "array"
                           THEN Array(Append(acc[k].value, Bytes(v)))
                           ELSE Array(<<acc[k], Bytes(v)>>)
         IN parse_query(Tail(pairs),
                [key \in DOMAIN acc \cup {k} |->
                    IF key = k THEN value ELSE acc[key]])

\* Variant that strips every leading '?'.
RECURSIVE strip_every_question_mark(_)
strip_every_question_mark(bytes) ==
    IF bytes # <<>> /\ bytes[1] = "?"
    THEN strip_every_question_mark(Tail(bytes))
    ELSE bytes

\* query_string after the test for a leading '?'.
strip_question_mark(bytes) ==
    IF bytes # <<>> /\ bytes[1] = "?" THEN Tail(bytes) ELSE bytes

\* ParseQueryStringFn::resolve on a value of bytes.
parse_query_string(bytes) ==
    parse_query(form_urlencoded_parse(strip_question_mark(bytes)),
                EmptyObject)

outsideQuery == <<blockVars, reentrantVars, llvmVars, sinkVars, buildVars>>

InitQuery ==
    /\ BlockOff
    /\ LlvmOff /\ SinkOff /\ BuildOff
    /\ \E value \in QueryStrings :
         query = [NoQuery EXCEPT !.pc = "resolve", !.value = value]

\* let mut query_string = bytes.as_ref(); if ... { &query_string[1..] }
QueryStrip ==
    /\ query.pc = "resolve"
    /\ query' = [query EXCEPT
                   !.pc = "parse",
                   !.query_string = strip_question_mark(query.value)]
    /\ UNCHANGED outsideQuery

\* form_urlencoded::parse and parse_query.
QueryParse ==
    /\ query.pc = "parse"
    /\ query' = [query EXCEPT
                   !.pc = "done",
                   !.result = parse_query(
                                  form_urlencoded_parse(query.query_string),
                                  EmptyObject)]
    /\ UNCHANGED outsideQuery

NextQuery ==
    \/ QueryStrip
    \/ QueryParse

SpecQuery == InitQuery /\ [][NextQuery]_vars

\* Block::resolve_batch run to completion on the scratch buffers this and
\* other: the final BatchContext, the final buffers, and the selection
\* vector handed to each child.
RECURSIVE resolve_batch_loop(_, _, _, _, _, _)
resolve_batch_loop(exprs, bctx, this, other, sv, sels) ==
    IF exprs = <<>>
    THEN [ctx |-> bctx, this |-> this, other |-> other, sels |-> sels]
    ELSE LET after == expr_resolve_batch(Head(exprs), bctx, this)
         IN resolve_batch_loop(
                Tail(exprs), after,
                truncate(other, 0) \o scan_ok(sv, after.resolved_values),
                this, sv, Append(sels, this))

resolve_batch(self_inner, bctx, sv, this, other) ==
    IF Len(self_inner) = 1
    THEN [ctx |-> expr_resolve_batch(self_inner[1], bctx, sv),
          this |-> this, other |-> other, sels |-> <<sv>>]
    ELSE resolve_batch_loop(
             self_inner, bctx,
             copy_from_slice(resize(this, Len(sv), 0), sv),
             other, sv, <<>>)

---------------------------------------------------------------------------
\* Properties

\* The context after every expression of exprs has been resolved in turn,
\* whatever the outcomes.
RECURSIVE RunAll(_, _)
RunAll(exprs, c) ==
    IF exprs = <<>> THEN c
    ELSE RunAll(Tail(exprs), expr_resolve(Head(exprs), c).ctx)

\* The Result of child k when the children before it have all run.
ResultAt(exprs, c, k) ==
    expr_resolve(exprs[k], RunAll(SubSeq(exprs, 1, k - 1), c)).res

\* The first child that returns an Error, 0 when none does.
FirstError(exprs, c) ==
    LET bad == {k \in 1 .. Len(exprs) : ~ResultAt(exprs, c, k).ok}
    IN IF bad = {} THEN 0 ELSE CHOOSE k \in bad : \A j \in bad : k <= j

BatchDone == op = "resolve_batch" /\ pc = "done"
ResolveDone == op = "resolve" /\ pc = "done"
TypeDefDone == op = "type_def" /\ pc = "done"

\* C1: for a block with at least one child (fast path or general path),
\* after resolve_batch the slot of every selected row equals the Result
\* that resolve returns for that row's record evaluated on its own.
C1_BatchEqualsResolvePerRow ==
    (BatchDone /\ Len(inner) >= 1) =>
        \A i \in Range(selection_vector) :
            ctx.resolved_values[i] = resolve(inner, entry.rows[i]).res

\* A multi-child batch in which an earlier row failed and a later row
\* succeeded.
C1_Witness ==
    /\ BatchDone
    /\ Len(inner) >= 2
    /\ \E i, j \in Range(selection_vector) :
         /\ i < j
         /\ ~ctx.resolved_values[i].ok
         /\ ctx.resolved_values[j].ok

\* C2: resolve evaluates the children left to right; when child k is the
\* first to return an Error, exactly the children 1..k were evaluated and
\* that Error is returned; when none errs, every child was evaluated once
\* and the last child's result is returned.
C2_ResolveFailFast ==
    (ResolveDone /\ Len(inner) >= 1) =>
        LET k == FirstError(inner, entry)
        IN /\ ~ret.panic
           /\ (k # 0) => /\ ret.res = ResultAt(inner, entry, k)
                         /\ ret.ctx.log = SubSeq(inner, 1, k)
           /\ (k = 0) => /\ ret.res = ResultAt(inner, entry, Len(inner))
                         /\ ret.ctx.log = inner

\* A three-child block whose first child failed: one evaluation only.
C2_Witness ==
    /\ ResolveDone
    /\ Len(inner) = 3
    /\ ~ret.res.ok
    /\ Len(ret.ctx.log) = 1

\* C3: in the general path, once child k has written an Error into the slot
\* of row i, row i is handed to no later child and its slot holds that Error
\* at the end of the call; the rows that never failed hold the value of the
\* last child.
C3_FailedRowsRetired ==
    (op = "resolve_batch" /\ Len(inner) >= 2) =>
        \A i \in Range(selection_vector) :
            /\ \A k \in 1 .. Len(handed) :
                 (i \in Range(handed[k].sel) /\ ~handed[k].slots[i].ok) =>
                     /\ \A j \in (k + 1) .. Len(handed) :
                            i \notin Range(handed[j].sel)
                     /\ pc = "done" =>
                            ctx.resolved_values[i] = handed[k].slots[i]
            /\ (pc = "done" /\ \A k \in 1 .. Len(handed) : handed[k].slots[i].ok) =>
                 /\ i \in Range(handed[Len(inner)].sel)
                 /\ ctx.resolved_values[i] =
                        expr_resolve(inner[Len(inner)],
                                     handed[Len(inner)].rows[i]).res

\* The three-row scenario: rows 0 and 2 alive to the end, row 1 failed by
\* the first child.
C3_Witness ==
    /\ BatchDone
    /\ Len(inner) >= 2
    /\ selection_vector = <<0, 1, 2>>
    /\ ~handed[1].slots[1].ok
    /\ ctx.resolved_values[0].ok
    /\ ctx.resolved_values[2].ok
    /\ ~ctx.resolved_values[1].ok

\* C4: in the general path, the buffer handed to the next child holds
\* exactly the indices of the buffer handed to this child whose slot is a
\* success, in the same relative order.
C4_NextAliveIsFilteredCurrent ==
    (op = "resolve_batch" /\ Len(inner) >= 2) =>
        /\ \A k \in 1 .. (Len(handed) - 1) :
             handed[k + 1].sel =
                 FilterSeq(handed[k].sel,
                           {i \in Rows : handed[k].slots[i].ok})
        /\ Len(handed) >= 1 =>
             selection_vector_this =
                 FilterSeq(handed[Len(handed)].sel,
                           {i \in Rows : handed[Len(handed)].slots[i].ok})

\* A child was handed three rows, failed one of them, and the next child
\* was handed the two others.
C4_Witness ==
    /\ op = "resolve_batch"
    /\ Len(handed) >= 2
    /\ Len(handed[1].sel) = 3
    /\ Len(handed[2].sel) = 2
    /\ handed[2].sel[1] # handed[2].sel[2]

\* C5: resolve_batch leaves the slot of every row outside the incoming
\* selection vector as it found it, and every selection vector handed to a
\* child is drawn from the incoming one.
C5_UnselectedRowsUntouched ==
    (op = "resolve_batch") =>
        /\ \A i \in Rows \ Range(selection_vector) :
             ctx.resolved_values[i] = entry.resolved_values[i]
        /\ \A k \in 1 .. Len(handed) :
             Range(handed[k].sel) \subseteq Range(selection_vector)

\* A finished multi-child call that left out a row holding a success and
\* a row holding an error.
C5_Witness ==
    /\ BatchDone
    /\ Len(inner) >= 2
    /\ Len(selection_vector) >= 1
    /\ \E i, j \in Rows \ Range(selection_vector) :
         /\ entry.resolved_values[i].ok
         /\ ~entry.resolved_values[j].ok

\* The TypeDef of child k of the block, typed against the block's own
\* local environment.
ChildTypeDef(k) ==
    expr_type_def(inner[k], local_env, CHOOSE e \in ExternalEnvs : TRUE)

\* C6: the TypeDef a block returns is fallible iff some child's TypeDef is
\* fallible, and abortable iff some child's TypeDef is abortable.
C6_FlagsAreOrOfChildren ==
    (TypeDefDone /\ ~ret.panic) =>
        /\ ret.td.fallible <=>
               \E k \in 1 .. Len(inner) : is_fallible(ChildTypeDef(k))
        /\ ret.td.abortable <=>
               \E k \in 1 .. Len(inner) : is_abortable(ChildTypeDef(k))

\* Both of the last child's own flags differ from the aggregate: an
\* earlier child is fallible, an earlier child is abortable, the last child
\* is neither.
C6_Witness ==
    /\ TypeDefDone
    /\ ~ret.panic
    /\ Len(inner) >= 3
    /\ ret.td.fallible
    /\ ~is_fallible(ChildTypeDef(Len(inner)))
    /\ ret.td.abortable
    /\ ~is_abortable(ChildTypeDef(Len(inner)))
    /\ \E k \in 1 .. Len(inner) :
         is_abortable(ChildTypeDef(k)) /\ ~is_fallible(ChildTypeDef(k))

\* C7: type_def panics iff some child typed "never" is followed by a
\* further child; a panic returns no TypeDef.
C7_PanicIffChildAfterNever ==
    TypeDefDone =>
        /\ ret.panic <=>
               \E k \in 1 .. (Len(inner) - 1) : is_never(ChildTypeDef(k))
        /\ ret.panic => DOMAIN ret = {"panic"}

\* A block with a child after a "never" child was typed.
C7_Witness ==
    /\ TypeDefDone
    /\ ret.panic
    /\ Len(inner) >= 2

\* C8: for a block with at least one child, the TypeDef returned is the
\* last child's TypeDef with the two flags replaced by the aggregate over
\* all children.
C8_ShapesOfLastChild ==
    (TypeDefDone /\ ~ret.panic /\ Len(inner) >= 1) =>
        /\ ret.td.kind = ChildTypeDef(Len(inner)).kind
        /\ ret.td =
               TypeDef(ChildTypeDef(Len(inner)).kind,
                       \E k \in 1 .. Len(inner) : is_fallible(ChildTypeDef(k)),
                       \E k \in 1 .. Len(inner) : is_abortable(ChildTypeDef(k)))

\* The terminating "never" child is the last one, after a fallible child.
C8_Witness ==
    /\ TypeDefDone
    /\ ~ret.panic
    /\ Len(inner) >= 2
    /\ is_never(ret.td)
    /\ ret.td.fallible
    /\ ret.td.abortable

\* C9: type_def types every child against the block's stored local
\* environment: the outcome is the same for every caller environment, the
\* caller's environment is after the call what it was before, and so is the
\* block's.
C9_TypedAgainstOwnEnv ==
    /\ [](TypeDefDone =>
            /\ \A caller \in LocalEnvs, external \in ExternalEnvs :
                 ret = type_def(inner, local_env, caller, external)
            /\ ~ret.panic =>
                 (ret.td.fallible <=>
                     \E k \in 1 .. Len(inner) : is_fallible(ChildTypeDef(k)))
            /\ caller_env = entry)
    /\ [][TypeDefCall => local_env' = local_env]_vars

\* The caller's environment differs from the block's and typing against it
\* would have given another TypeDef.
C9_Witness ==
    /\ TypeDefDone
    /\ ~ret.panic
    /\ caller_env # local_env
    /\ \E k \in 1 .. Len(inner) : inner[k] = "XPlus1"
    /\ \E external \in ExternalEnvs :
         ret # type_def(inner, caller_env, caller_env, external)

\* C10 as stated: after resolve returns, the record's context holds no
\* variable binding introduced by a child of the block.
C10_RuntimeScopeRestored ==
    (ResolveDone /\ ~ret.panic) => ret.ctx.vars = entry.vars

\* C10 amended: resolve does not restore the variable storage. After it
\* returns, the context holds the binding made by the evaluated children
\* of the block: x is 1 when an evaluated child bound it, and the storage is
\* as the call found it otherwise.
C10_BindingsOutliveBlock ==
    (ResolveDone /\ ~ret.panic) =>
        IF "SetX" \in Range(ret.ctx.log)
        THEN ret.ctx.vars = [x |-> Integer(1)]
        ELSE ret.ctx.vars = entry.vars

\* x was unbound on entry, bound by the first child, read by a later
\* sibling, and is still bound after the block.
C10_Witness ==
    /\ ResolveDone
    /\ inner = <<"SetX", "XPlus1">>
    /\ entry.vars.x = Undefined
    /\ ret.res = Ok(Integer(2))
    /\ ret.ctx.vars.x = Integer(1)

\* C11: every block that is built and executed has at least one child, so
\* resolve never fails for want of an expression, resolve_batch never
\* returns with a selected row that no child was run on, and type_def never
\* returns for a block without children.
C11_BlockNeverEmpty ==
    /\ ResolveDone => ~ret.panic
    /\ BatchDone =>
         \A i \in Range(selection_vector) :
             \E k \in 1 .. Len(handed) : i \in Range(handed[k].sel)
    /\ TypeDefDone => Len(inner) >= 1

\* The selection vectors handed to the children so far in this call.
HandedSels == [k \in 1 .. Len(handed) |-> handed[k].sel]

\* C13: at every step of every call, whatever calls came before, the scratch
\* buffer handed to a child and the buffer filled after it are no longer
\* than the incoming selection vector of the current call.
C13_BuffersBoundedBySelection ==
    (op = "resolve_batch") =>
        /\ \A k \in 1 .. Len(handed) :
             Len(handed[k].sel) <= Len(selection_vector)
        /\ Len(inner) # 1 =>
             Len(selection_vector_this) <= Len(selection_vector)
        /\ (Len(inner) # 1 /\ Len(handed) >= 1) =>
             Len(selection_vector_other) <= Len(selection_vector)

\* A multi-child call that found both buffers longer than its own
\* selection vector, left by an earlier call, and ran to its end.
C13_Witness ==
    /\ BatchDone
    /\ Len(inner) >= 2
    /\ Len(selection_vector) >= 1
    /\ Len(found[1]) > Len(selection_vector)
    /\ Len(found[2]) > Len(selection_vector)

\* C14: what a call of resolve_batch does to the batch context and the
\* selection vectors it hands to its children are those of the same call
\* on a freshly built Block, whatever the scratch buffers held.
C14_IndependentOfScratch ==
    (op = "resolve_batch") =>
        LET fresh == resolve_batch(inner, entry, selection_vector, <<>>, <<>>)
        IN /\ HandedSels = SubSeq(fresh.sels, 1, Len(handed))
           /\ pc = "done" =>
                /\ ctx = fresh.ctx
                /\ HandedSels = fresh.sels

\* A finished multi-child call that found, from an earlier call, buffers
\* other than the empty ones of a fresh Block, and failed some row.
C14_Witness ==
    /\ BatchDone
    /\ Len(inner) >= 2
    /\ found[1] # <<>>
    /\ found[2] # <<>>
    /\ Len(found[1]) # Len(selection_vector)
    /\ \E i, j \in Range(selection_vector) :
         ~ctx.resolved_values[i].ok /\ ctx.resolved_values[j].ok

\* A child of invocation f was run on rows that its invocation did not
\* select.
HandedForeignRows(f) ==
    \E k \in 1 .. Len(frames[f].handed) :
        ~(Range(frames[f].handed[k].sel)
              \subseteq Range(frames[f].selection_vector))

\* A child of invocation f, after the first, was run on a row of the
\* invocation's selection vector whose slot already held an error.
HandedFailedRow(f) ==
    \E k \in 2 .. Len(frames[f].handed) :
        \E i \in Range(frames[f].handed[k].sel)
                  \cap Range(frames[f].selection_vector) :
            ~frames[f].handed[k].before[i].ok

\* C12: when every invocation of resolve_batch has exclusive access to the
\* Block and runs to completion, no child is run on rows outside its
\* invocation's selection vector or on a row that already failed; without
\* exclusive access such a state is reachable (C12_Witness).
C12_ExclusiveCallsKeepSelections ==
    exclusive =>
        \A f \in Invocations : ~HandedForeignRows(f) /\ ~HandedFailedRow(f)

\* Two interleaved invocations: a child was run on the selection of the
\* other invocation, and a child was run on an already failed row.
C12_Witness ==
    /\ ~exclusive
    /\ \E f \in Invocations : HandedForeignRows(f)
    /\ \E f \in Invocations : HandedFailedRow(f)

\* The control-flow graph emitted by emit_llvm.
Succ(b) ==
    IF llvm.blocks[b].term.kind = "none" THEN {}
    ELSE {llvm.blocks[b].term.then, llvm.blocks[b].term.else}

RECURSIVE ReachN(_, _)
ReachN(S, n) ==
    IF n = 0 THEN S ELSE ReachN(S \cup UNION {Succ(b) : b \in S}, n - 1)

\* The basic blocks that control can reach from the blocks of S.
Reach(S) == ReachN(S, Len(llvm.blocks))

\* The basic blocks that hold the code of child k.
ChildBlocks(k) ==
    {b \in 1 .. Len(llvm.blocks) : k \in Range(llvm.blocks[b].code)}

StaticTypeDef(k) ==
    expr_type_def(inner[k], llvm.state, CHOOSE e \in ExternalEnvs : TRUE)

\* C15: in the lowering of a block, the code of every child sits in one
\* basic block reachable from the entry block; a statically fallible child
\* ends its basic block with a branch to the exit block on error, a child
\* that is not fallible but abortable with a branch to the exit block on
\* abort; no code of a child can be reached once such a branch to the exit
\* block is taken; every path from the entry block ends at the exit block,
\* and the code after the last child branches to it unconditionally.
C15_LoweringIsFailFast ==
    (llvm.phase = "done") =>
        /\ \A k \in 1 .. Len(inner) :
             /\ Cardinality(ChildBlocks(k)) = 1
             /\ ChildBlocks(k) \subseteq Reach({llvm.begin})
             /\ \A b \in ChildBlocks(k) :
                  LET t == llvm.blocks[b].term
                      code == llvm.blocks[b].code
                      td == StaticTypeDef(k)
                  IN /\ is_fallible(td) =>
                          /\ code[Len(code)] = k
                          /\ t.kind = "condbr" /\ t.cond = "is_err"
                          /\ t.then = llvm.end
                     /\ (~is_fallible(td) /\ is_abortable(td)) =>
                          /\ code[Len(code)] = k
                          /\ t.kind = "condbr" /\ t.cond = "is_abort"
                          /\ t.then = llvm.end
        /\ \A b \in 1 .. Len(llvm.blocks) :
             llvm.blocks[b].term.kind = "condbr" =>
                 \A k \in 1 .. Len(inner) :
                     ChildBlocks(k) \cap Reach({llvm.blocks[b].term.then}) = {}
        /\ llvm.blocks[llvm.end].term.kind = "none"
        /\ \A b \in Reach({llvm.begin}) \ {llvm.end} :
             /\ Succ(b) # {}
             /\ b \notin Reach(Succ(b))
        /\ Cardinality({b \in Reach({llvm.begin}) :
                            llvm.blocks[b].term = Br(llvm.end)}) = 1

\* A block of three children was lowered, with a branch on error and a
\* branch on abort before the last child.
C15_Witness ==
    /\ llvm.phase = "done"
    /\ Len(inner) = 3
    /\ \E b, c \in 1 .. Len(llvm.blocks) :
         /\ llvm.blocks[b].term.cond = "is_err"
         /\ llvm.blocks[c].term.cond = "is_abort"
         /\ 3 \notin Range(llvm.blocks[b].code)
         /\ 3 \notin Range(llvm.blocks[c].code)

\* The checks have run.
SinkChecked == sink.pc \in {"send", "returned"}

\* Some received event satisfies the condition.
SatisfiedBySome(condition) ==
    \E n \in 1 .. Len(sink.output_events) :
        sink.output_events[n] \in condition

RECURSIVE Concat(_)
Concat(seqs) == IF seqs = <<>> THEN <<>> ELSE Head(seqs) \o Concat(Tail(seqs))

\* What check i (counted from 0) is to contribute: nothing when each of its
\* conditions is satisfied by some received event; otherwise one preamble
\* line, then for every condition that no event satisfies one line per
\* received event.
ExpectedOfCheck(i) ==
    LET check == sink.check.checks[i + 1]
        lines == Concat([j \in 1 .. Len(check) |->
                    IF SatisfiedBySome(check[j]) THEN <<>>
                    ELSE [n \in 1 .. Len(sink.output_events) |->
                             ConditionLine(j - 1, sink.output_events[n])]])
    IN IF \A j \in 1 .. Len(check) : SatisfiedBySome(check[j])
       THEN <<>>
       ELSE <<PreambleLine(i)>> \o lines

\* C16: with check Checks and at least one received event, test_errors is
\* the contributions of the checks in order (followed by the line of the
\* received payloads when there is any error): a check contributes nothing
\* iff every condition of it is satisfied by some received event.
C16_CheckPassesIffEveryConditionMet ==
    (SinkChecked /\ sink.check.kind = "Checks" /\ sink.output_events # <<>>) =>
        LET expected == Concat([i \in 1 .. Len(sink.check.checks) |->
                                   ExpectedOfCheck(i - 1)])
        IN /\ sink.test_errors =
                 IF expected = <<>> THEN <<>>
                 ELSE Append(expected, PayloadsLine)
           /\ \A i \in 1 .. Len(sink.check.checks) :
                (ExpectedOfCheck(i - 1) = <<>>) <=>
                    \A j \in 1 .. Len(sink.check.checks[i]) :
                        SatisfiedBySome(sink.check.checks[i][j])

\* Two events were received; a check passes thanks to a condition that the
\* first event fails and the second satisfies, and another check fails.
C16_Witness ==
    /\ sink.pc = "returned"
    /\ sink.check.kind = "Checks"
    /\ Len(sink.output_events) = 2
    /\ \E i, k \in 1 .. Len(sink.check.checks) :
         /\ ExpectedOfCheck(i - 1) = <<>>
         /\ \E j \in 1 .. Len(sink.check.checks[i]) :
              sink.output_events[1] \notin sink.check.checks[i][j]
         /\ ExpectedOfCheck(k - 1) # <<>>

\* C17: with Checks and no received event the result holds exactly the one
\* error "no events received", whatever the checks; with NoOutputs it holds
\* an error iff an event was received; with NoOp it holds none.
C17_OutcomeByCheckKind ==
    SinkChecked =>
        /\ (sink.check.kind = "Checks" /\ sink.output_events = <<>>) =>
               sink.test_errors = <<NoEventsLine>>
        /\ sink.check.kind = "NoOutputs" =>
               (sink.test_errors # <<>> <=> sink.output_events # <<>>)
        /\ sink.check.kind = "NoOp" => sink.test_errors = <<>>

\* A sink with an empty list of checks received nothing and reports the
\* one error.
C17_Witness ==
    /\ sink.pc = "returned"
    /\ sink.check = Checks(<<>>)
    /\ sink.output_events = <<>>
    /\ Len(sink.test_errors) = 1

\* C18: the result is sent at most once, and only when the stream has
\* ended and every event of it was collected; once the stream has ended a
\* sink that holds a sender eventually sends, and run returns Ok whether
\* the send succeeded or not and whether the checks failed or not.
C18_ResultSentOnceAfterStreamEnd ==
    /\ [](/\ channel.sends <= 1
          /\ channel.sends = 1 =>
               /\ input.closed
               /\ sink.output_events = input.events
               /\ sink.pc = "returned"
          /\ sink.pc = "returned" => sink.ret = "Ok")
    /\ (sink.pc = "collect" /\ input.closed /\ sink.result_tx = "Some")
           ~> (channel.sends = 1)
    /\ (sink.pc = "collect" /\ input.closed)
           ~> (sink.pc = "returned" /\ sink.ret = "Ok")

\* run returned Ok after failing checks and a send that found the
\* receiver gone.
C18_Witness ==
    /\ sink.pc = "returned"
    /\ sink.ret = "Ok"
    /\ channel.sends = 1
    /\ channel.delivered = <<>>
    /\ sink.test_errors # <<>>
    /\ sink.output_events # <<>>

\* The builders whose build took the sender.
Holders == {b \in Builders : builds[b].got = "Some"}

\* C19: of the sinks built from configurations sharing one result_tx at
\* most one holds the sender; the first build to take under the lock gets
\* what the configuration held, every later one gets None, and a sink built
\* without a sender runs its checks but reports nothing.
C19_OneSinkHoldsSender ==
    /\ [](/\ Cardinality(Holders) <= 1
          /\ \A n \in 2 .. Len(take_order) :
               builds[take_order[n]].got = "None"
          /\ take_order # <<>> => config_tx = "None"
          /\ \A b \in Builders :
               (builds[b].pc = "ran" /\ builds[b].got = "None") =>
                   /\ ~builds[b].reported
                   /\ builds[b].test_errors =
                          test_errors(builds[b].check,
                                      builds[b].output_events)
          /\ channel.sends =
                 Cardinality({b \in Builders : builds[b].reported})
          /\ channel.sends <= 1)
    /\ [][(take_order = <<>> /\ take_order' # <<>>) =>
              builds'[take_order'[1]].got = config_tx]_vars

\* Two sinks were built from a configuration holding a sender.  The sink
\* of the first to take holds the sender and is suspended with one event
\* collected; meanwhile the other was built, ran to its end, found errors
\* and reported nothing.
C19_Witness ==
    /\ Len(take_order) = 2
    /\ builds[take_order[1]].got = "Some"
    /\ builds[take_order[1]].pc = "built"
    /\ builds[take_order[1]].result_tx = "Some"
    /\ Len(builds[take_order[1]].output_events) = 1
    /\ builds[take_order[2]].pc = "ran"
    /\ builds[take_order[2]].got = "None"
    /\ builds[take_order[2]].test_errors # <<>>
    /\ ~builds[take_order[2]].reported
    /\ channel.sends = 0

StartsWithQuestionMark(s) == s # <<>> /\ s[1] = "?"

\* C20: parse_query_string strips at most one leading '?': the result for
\* "?" followed by s is the result for s when s does not start with '?';
\* a second leading '?' stays, as the start of the first key; an input
\* that does not start with '?' is parsed as it is; the empty input gives
\* the empty object.
C20_AtMostOneQuestionMarkStripped ==
    query.pc = "done" =>
        LET s == query.value
            parsed(t) == parse_query(form_urlencoded_parse(t), EmptyObject)
        IN /\ s = <<>> => query.result = EmptyObject
           /\ ~StartsWithQuestionMark(s) => query.result = parsed(s)
           /\ (StartsWithQuestionMark(s)
                  /\ ~StartsWithQuestionMark(Tail(s))) =>
                  /\ query.result = parse_query_string(Tail(s))
                  /\ query.result = parsed(Tail(s))
           /\ (StartsWithQuestionMark(s)
                  /\ StartsWithQuestionMark(Tail(s))) =>
                  LET first == form_urlencoded_parse(Tail(s))[1][1]
                  IN /\ first[1] = "?"
                     /\ Len(first) =
                            IF \E n \in 1 .. Len(s) : s[n] \in {"=", "&"}
                            THEN (CHOOSE n \in 1 .. Len(s) :
                                     /\ s[n] \in {"=", "&"}
                                     /\ \A m \in 1 .. n - 1 :
                                          s[m] \notin {"=", "&"}) - 2
                            ELSE Len(s) - 1
                     /\ first \in DOMAIN query.result

\* "??a=" was parsed: one '?' went and the key is "?a".
C20_Witness ==
    /\ query.pc = "done"
    /\ query.value = <<"?", "?", "a", "=">>
    /\ DOMAIN query.result = {<<"?", "a">>}

====
